---------------------------- MODULE Spec2Model ----------------------------
(***************************************************************************)
(* A model of the resolution core of adaptix:                              *)
(*   - provider/overlay_schema.py : Overlay.merge, Overlay.to_schema,      *)
(*     provide_schema (the ancestor walk), OverlayProvider                 *)
(*   - provider/provider_wrapper.py : BoundingProvider, ConcatProvider,    *)
(*     ChainingProvider                                                    *)
(*   - facade/retort.py : AdornedRetort (caches, replace, extend)          *)
(* Three specifications share the module: SpecOverlay drives               *)
(* provide_schema, SpecProvider drives the combinators inside a recipe     *)
(* search, SpecRetort drives retort instances.                             *)
(***************************************************************************)
EXTENDS Integers, Sequences, FiniteSets, TLC

(***************************************************************************)
(* Bounds of the model.                                                    *)
(***************************************************************************)
\* the longest list of ancestors, type.mro()[1:], the walk is run on
MaxAncestors == 2
\* the most children a ConcatProvider is built with
MaxChildren == 2
\* the longest instance recipe a retort is given or extended by
MaxRecipe == 2
\* converters are compared on the inputs 0..MaxData
MaxData == 3
\* the most retort instances alive
MaxRetorts == 3
\* the most calls made on the retorts in one run
MaxOps == 3

VARIABLES
    \* ---- overlay_schema.py ----
    custom_fields,    \* the fields for which the Overlay subclass defines _merge_<field>
    mergers,          \* cls._mergers, the lazily filled class-level table
    ps_pc,            \* where provide_schema stands
    ps_is_class,      \* loc_map.has(TypeHintLoc) and isinstance(type, type)
    ps_answers,       \* what mediator.provide answers for the type (1) and each parent (2..)
    ps_idx,           \* the index in ps_answers of the next parent of the loop
    ps_asked,         \* the indexes mediator.provide was called for, in call order
    stacked_overlay,  \* the local stacked_overlay
    ps_result,        \* what provide_schema returned or raised
    \* ---- provider_wrapper.py inside the mediator's search ----
    pv_pc,            \* where the mediator stands: "idle", "asked", "done"
    pv_recipe,        \* the recipe searched
    pv_request,       \* the request searched for
    pv_attempts,      \* the outcome of each recipe provider the scan from 1 tried
    pv_result,        \* the outcome of mediator.provide(request)
    pv_probes,        \* per position, what the provider's probe said of the request class
    \* ---- facade/retort.py ----
    rt_retorts,       \* the retort instances, in order of creation
    rt_heap,          \* the dict objects the instances' caches refer to
    rt_searches,      \* history: the recipe searches run so far, with their success
    rt_added,         \* history: per instance, the recipes it was given, oldest first
    rt_ops,           \* the number of calls made so far
    rt_last,          \* the last call and what it returned or raised
    \* ---- two threads calling get_loader on one retort ----
    rc_retort,        \* the retort the threads share
    rc_cache,         \* its _loader_cache
    rc_pc,            \* per thread, where it stands in get_loader
    rc_tp,            \* per thread, the argument tp
    rc_loader,        \* per thread, the local loader_
    rc_ret            \* per thread, what its last call returned

ovVars == <<custom_fields, mergers, ps_pc, ps_is_class, ps_answers, ps_idx,
            ps_asked, stacked_overlay, ps_result>>

pvVars == <<pv_pc, pv_recipe, pv_request, pv_attempts, pv_result, pv_probes>>

rtVars == <<rt_retorts, rt_heap, rt_searches, rt_added, rt_ops, rt_last>>

rcVars == <<rc_retort, rc_cache, rc_pc, rc_tp, rc_loader, rc_ret>>

vars == <<ovVars, pvVars, rtVars, rcVars>>

\* what the actions of one component leave alone
notOverlay == <<pvVars, rtVars, rcVars>>
notProvider == <<ovVars, rtVars, rcVars>>
notRetort == <<ovVars, pvVars, rcVars>>
notRace == <<ovVars, pvVars, rtVars>>

(***************************************************************************)
(* overlay_schema.py: Overlay                                              *)
(***************************************************************************)
\* the dataclass fields of the Overlay subclass under test
FieldNames == {"f", "g"}

\* the sentinel Omitted(); a field value is a non-empty sequence, the sentinel
\* is the empty one, so that no value can be taken for it
Omitted == <<>>

\* the values an overlay layer may give a field
FieldValues == {<<1>>, <<2>>}

Overlays == [FieldNames -> FieldValues \cup {Omitted}]

AllOmitted == [fn \in FieldNames |-> Omitted]

default_merge_keeps_old(old, new) == old

\* Overlay._default_merge
default_merge(old, new) == new

\* a _merge_<field> method of the Overlay subclass: concatenation of the two values
custom_merge(old, new) == old \o new

\* Overlay._is_omitted
is_omitted(value) == value = Omitted

NotLoaded == [loaded |-> FALSE, map |-> [fn \in FieldNames |-> "default"]]

\* Overlay._load_mergers: the table is computed on first use and kept on the class
load_mergers(cached, custom) ==
    IF ~cached.loaded
    THEN [loaded |-> TRUE,
          map |-> [fn \in FieldNames |-> IF fn \in custom THEN "custom" ELSE "default"]]
    ELSE cached

\* merger(self, old_field_value, new_field_value) for the merger the table holds
call_merger(merger, old, new) ==
    IF merger = "custom" THEN custom_merge(old, new) ELSE default_merge(old, new)

\* a merge that asks the merger whenever the old value is present
merge_unless_old_omitted(self, new, table) ==
    [fn \in FieldNames |->
        IF is_omitted(self[fn]) THEN new[fn]
        ELSE call_merger(table.map[fn], self[fn], new[fn])]

\* Overlay.merge: self is the old overlay
merge(self, new, table) ==
    [fn \in FieldNames |->
        IF is_omitted(self[fn]) THEN new[fn]
        ELSE IF is_omitted(new[fn]) THEN self[fn]
        ELSE call_merger(table.map[fn], self[fn], new[fn])]

omitted_fields(self) == {fn \in FieldNames : is_omitted(self[fn])}

to_schema_defaulting(self) ==
    [kind |-> "Schema",
     fields |-> [fn \in FieldNames |-> IF is_omitted(self[fn]) THEN <<1>> ELSE self[fn]]]

\* Overlay.to_schema
to_schema(self) ==
    IF omitted_fields(self) # {}
    THEN [kind |-> "ValueError", fields |-> self]
    ELSE [kind |-> "Schema", fields |-> self]

(***************************************************************************)
(* overlay_schema.py: provide_schema                                       *)
(***************************************************************************)
\* what mediator.provide(OverlayRequest(...)) does for one location: it returns
\* an overlay, raises CannotProvide, or raises another error
\* (loads: the search merged overlays on the way, which loads the mergers)
Provided(ov) == [kind |-> "overlay", ov |-> ov, loads |-> FALSE]
RaisedCannotProvide == [kind |-> "CannotProvide", ov |-> AllOmitted, loads |-> FALSE]
RaisedOther == [kind |-> "OtherError", ov |-> AllOmitted, loads |-> FALSE]

MediatorAnswers == {Provided(ov) : ov \in Overlays} \cup {RaisedCannotProvide, RaisedOther}

NoResult == [kind |-> "none", fields |-> AllOmitted]

\* provide_schema is entered: the mediator's answers for the type and for each
\* of its parents are the inputs
ProvideSchemaCall ==
    /\ ps_pc = "idle"
    /\ \E n \in 1..MaxAncestors, is_class \in BOOLEAN :
         \E answers \in [1..(n + 1) -> MediatorAnswers] :
            /\ ps_answers' = answers
            /\ ps_is_class' = is_class
    /\ ps_pc' = "own"
    /\ ps_idx' = 2
    /\ ps_asked' = <<>>
    /\ stacked_overlay' = AllOmitted
    /\ ps_result' = NoResult
    /\ UNCHANGED <<custom_fields, mergers, notOverlay>>

\* lines 85-92: the request for the type itself, outside any try
ProvideOwnOverlay ==
    /\ ps_pc = "own"
    /\ ps_asked' = Append(ps_asked, 1)
    /\ \/ /\ ps_answers[1].kind = "overlay"
          /\ stacked_overlay' = ps_answers[1].ov
          /\ ps_pc' = IF ps_is_class THEN "walk" ELSE "convert"
          /\ UNCHANGED ps_result
       \/ /\ ps_answers[1].kind # "overlay"
          /\ ps_result' = [kind |-> ps_answers[1].kind, fields |-> AllOmitted]
          /\ ps_pc' = "raised"
          /\ UNCHANGED stacked_overlay
    /\ mergers' = IF ps_answers[1].loads THEN load_mergers(mergers, custom_fields) ELSE mergers
    /\ UNCHANGED <<custom_fields, ps_is_class, ps_answers, ps_idx, notOverlay>>

walk_merges_derived_first(new_overlay, stacked, table) == merge(stacked, new_overlay, table)

\* line 104: new_overlay.merge(stacked_overlay)
walk_merge(new_overlay, stacked, table) == merge(new_overlay, stacked, table)

\* lines 93-104: one iteration of the loop over mro()[1:]
ProvideParentOverlay ==
    /\ ps_pc = "walk"
    /\ ps_idx <= Len(ps_answers)
    /\ ps_asked' = Append(ps_asked, ps_idx)
    /\ \/ /\ ps_answers[ps_idx].kind = "overlay"
          /\ mergers' = load_mergers(mergers, custom_fields)
          /\ stacked_overlay' = walk_merge(ps_answers[ps_idx].ov, stacked_overlay, mergers')
          /\ ps_idx' = ps_idx + 1
          /\ UNCHANGED <<ps_pc, ps_result>>
       \/ /\ ps_answers[ps_idx].kind = "CannotProvide"
          /\ ps_idx' = ps_idx + 1
          /\ UNCHANGED <<ps_pc, ps_result, stacked_overlay, mergers>>
       \/ /\ ps_answers[ps_idx].kind = "OtherError"
          /\ ps_result' = [kind |-> "OtherError", fields |-> AllOmitted]
          /\ ps_pc' = "raised"
          /\ UNCHANGED <<ps_idx, stacked_overlay, mergers>>
    /\ UNCHANGED <<custom_fields, ps_is_class, ps_answers, notOverlay>>

\* line 106: return stacked_overlay.to_schema()
ReturnSchema ==
    /\ \/ ps_pc = "convert"
       \/ ps_pc = "walk" /\ ps_idx > Len(ps_answers)
    /\ ps_result' = to_schema(stacked_overlay)
    /\ ps_pc' = IF ps_result'.kind = "Schema" THEN "returned" ELSE "raised"
    /\ UNCHANGED <<custom_fields, mergers, ps_is_class, ps_answers, ps_idx,
                   ps_asked, stacked_overlay, notOverlay>>

(***************************************************************************)
(* Converters: the callables a provider returns for a Loader/DumperRequest *)
(***************************************************************************)
\* a converter supplied by a leaf provider
Prim(name) == [kind |-> "prim", name |-> name]

\* the closure chain_processor of ChainingProvider._make_chain: it captures
\* first and second
ChainProcessor(first, second) == [kind |-> "chain_processor", first |-> first, second |-> second]

\* the closure trail_rendering_wrapper of _make_loader and _make_dumper: it
\* captures loader_ (dumper_)
TrailRenderingWrapper(inner) == [kind |-> "trail_rendering_wrapper", inner |-> inner]

RECURSIVE Call(_, _)
\* converter(data)
Call(converter, data) ==
    CASE converter.kind = "chain_processor" ->
            Call(converter.second, Call(converter.first, data))
      [] converter.kind = "trail_rendering_wrapper" ->
            Call(converter.inner, data)
      [] converter.kind = "prim" ->
            IF converter.name = "add1" THEN data + 1
            ELSE IF converter.name = "mul2" THEN data * 2
            ELSE data

\* ChainingProvider._make_chain
make_chain(first, second) == ChainProcessor(first, second)

\* what applying a converter to data gives: the value it returns, or the
\* exception it raises with the notes added to it
Gave(value) == [kind |-> "ok", value |-> value, notes |-> <<>>]
Threw(exc_class) == [kind |-> exc_class, value |-> 0, notes |-> <<>>]
NotApplied == [kind |-> "none", value |-> 0, notes |-> <<>>]

\* isinstance(e, Exception): KeyboardInterrupt derives from BaseException only
is_exception(exc_class) == exc_class = "LoadError"

\* the leaf converters reject negative data: -1 with a LoadError, and at any
\* other negative number the conversion is interrupted from the keyboard
prim_call(converter, data) ==
    IF data = -1 THEN Threw("LoadError")
    ELSE IF data < 0 THEN Threw("KeyboardInterrupt")
    ELSE Gave(Call(converter, data))

\* render_trail_as_note(e): the note with the path is added to the exception
render_trail_as_note(thrown) == [thrown EXCEPT !.notes = Append(@, "trail")]

trail_rendering_wrapper_swallows(inner_outcome) ==
    IF inner_outcome.kind = "ok" THEN inner_outcome ELSE Gave(0)

\* the body of trail_rendering_wrapper, given what loader_(data) did: its
\* value is returned; an Exception is given the note and raised again; what
\* is not an Exception passes
trail_rendering_wrapper(inner_outcome) ==
    IF inner_outcome.kind = "ok" THEN inner_outcome
    ELSE IF is_exception(inner_outcome.kind) THEN render_trail_as_note(inner_outcome)
    ELSE inner_outcome

RECURSIVE Apply(_, _)
\* converter(data), with the exceptions it may raise
Apply(converter, data) ==
    CASE converter.kind = "chain_processor" ->
            LET first_outcome == Apply(converter.first, data)
            IN  IF first_outcome.kind # "ok" THEN first_outcome
                ELSE Apply(converter.second, first_outcome.value)
      [] converter.kind = "trail_rendering_wrapper" ->
            trail_rendering_wrapper(Apply(converter.inner, data))
      [] converter.kind = "prim" -> prim_call(converter, data)

(***************************************************************************)
(* Requests, providers and outcomes                                        *)
(***************************************************************************)
RequestClasses == {"LoaderRequest", "DumperRequest"}
Locations == {"Book", "Person"}

\* a located request: its class and the location of its loc_map
Requests == [cls : RequestClasses, loc : Locations]

\* leaf providers, supplied from outside the engine: for the request classes it
\* handles a leaf returns its converter, for the others it raises
\* CannotProvide; a broken leaf raises an error that is not CannotProvide
Leaf(conv, handles) ==
    [kind |-> "leaf", conv |-> conv, handles |-> handles, broken |-> FALSE, probed |-> TRUE]
BrokenLeaf ==
    [kind |-> "leaf", conv |-> "none", handles |-> {}, broken |-> TRUE, probed |-> TRUE]

\* BoundingProvider(request_checker, provider); the checker is given by the
\* locations it accepts
Bounding(accepts, provider) == [kind |-> "bounding", accepts |-> accepts, provider |-> provider]

\* ConcatProvider(*providers)
Concat(providers) == [kind |-> "concat", providers |-> providers]

\* OverlayProvider(overlays, chain): the ClassMap of the overlays by their
\* class, and the chain mode, "None" for chain=None
OverlayProvider(overlays, chain) == [kind |-> "overlay", overlays |-> overlays, chain |-> chain]

\* OverlayRequest(loc_map, overlay_cls)
OverlayClasses == {"Ov", "OtherOv"}
OverlayRequests == [cls : {"OverlayRequest"}, loc : Locations, overlay_cls : OverlayClasses]

\* ChainingProvider(chain, provider)
Chaining(chain, provider) == [kind |-> "chaining", chain |-> chain, provider |-> provider]

NoValue == [kind |-> "none", name |-> "none"]
NoExc == [type |-> "none", at |-> <<>>, children |-> <<>>]

\* an exception: the place that raised it, <<recipe position>> \o path of child
\* indexes, and for an aggregate the exceptions it carries
CannotProvideExc(at, children) == [type |-> "CannotProvide", at |-> at, children |-> children]
OtherErrorExc(at) == [type |-> "OtherError", at |-> at, children |-> <<>>]

\* the outcome of a call: a returned value or a raised exception, and the
\* apply_provider calls made on the way, in call order
Returned(value, log) == [kind |-> "ok", value |-> value, exc |-> NoExc, log |-> log]
Raised(exc, log) == [kind |-> exc.type, value |-> NoValue, exc |-> exc, log |-> log]

WithLog(outcome, log) == [outcome EXCEPT !.log = log]

(***************************************************************************)
(* provider_wrapper.py and the mediator's search                           *)
(***************************************************************************)
RECURSIVE apply_provider(_, _, _, _)
RECURSIVE provide_from(_, _, _, _)

\* a leaf provider's apply_provider: the Provider protocol
leaf_apply(provider, at, request) ==
    IF provider.broken THEN Raised(OtherErrorExc(at), <<at>>)
    ELSE IF request.cls \in provider.handles
    THEN Returned(Prim(provider.conv), <<at>>)
    ELSE Raised(CannotProvideExc(at, <<>>), <<at>>)

\* RequestChecker.check_request: raises CannotProvide unless the request's
\* location is one the checker accepts
check_request(accepts, request) == request.loc \in accepts

bounding_apply_unchecked(provider, recipe, at, request) ==
    LET inner == apply_provider(provider.provider, recipe, at \o <<1>>, request)
    IN  WithLog(inner, <<at>> \o inner.log)

\* BoundingProvider.apply_provider
bounding_apply(provider, recipe, at, request) ==
    IF ~check_request(provider.accepts, request)
    THEN Raised(CannotProvideExc(at, <<>>), <<at>>)
    ELSE LET inner == apply_provider(provider.provider, recipe, at \o <<1>>, request)
         IN  WithLog(inner, <<at>> \o inner.log)

RECURSIVE concat_loop_keeps_last(_, _, _, _, _, _, _)
concat_loop_keeps_last(providers, k, exceptions, log, recipe, at, request) ==
    IF k > Len(providers)
    THEN Raised(CannotProvideExc(at, exceptions), log)
    ELSE LET child == apply_provider(providers[k], recipe, at \o <<k>>, request)
         IN  IF child.kind = "ok"
             THEN WithLog(child, log \o child.log)
             ELSE IF child.kind = "CannotProvide"
             THEN concat_loop_keeps_last(providers, k + 1, <<child.exc>>,
                                         log \o child.log, recipe, at, request)
             ELSE WithLog(child, log \o child.log)

RECURSIVE concat_loop_catches_all(_, _, _, _, _, _, _)
\* a loop with "except Exception" in place of "except CannotProvide"
concat_loop_catches_all(providers, k, exceptions, log, recipe, at, request) ==
    IF k > Len(providers)
    THEN Raised(CannotProvideExc(at, exceptions), log)
    ELSE LET child == apply_provider(providers[k], recipe, at \o <<k>>, request)
         IN  IF child.kind = "ok"
             THEN WithLog(child, log \o child.log)
             ELSE concat_loop_catches_all(providers, k + 1, Append(exceptions, child.exc),
                                          log \o child.log, recipe, at, request)

RECURSIVE concat_loop(_, _, _, _, _, _, _)
\* ConcatProvider.apply_provider: the loop from child k on, and the raise
\* that follows it
concat_loop(providers, k, exceptions, log, recipe, at, request) ==
    IF k > Len(providers)
    THEN Raised(CannotProvideExc(at, exceptions), log)
    ELSE LET child == apply_provider(providers[k], recipe, at \o <<k>>, request)
         IN  IF child.kind = "ok"
             THEN WithLog(child, log \o child.log)
             ELSE IF child.kind = "CannotProvide"
             THEN concat_loop(providers, k + 1, Append(exceptions, child.exc),
                              log \o child.log, recipe, at, request)
             ELSE WithLog(child, log \o child.log)

\* ConcatProvider.apply_provider
concat_apply(provider, recipe, at, request) ==
    concat_loop(provider.providers, 1, <<>>, <<at>>, recipe, at, request)

chain_result_swapped(chain, current_processor, next_processor) ==
    IF chain = "FIRST" THEN make_chain(next_processor, current_processor)
    ELSE make_chain(current_processor, next_processor)

\* ChainingProvider.apply_provider, lines 78-82
chain_result(chain, current_processor, next_processor) ==
    IF chain = "FIRST" THEN make_chain(current_processor, next_processor)
    ELSE make_chain(next_processor, current_processor)

chaining_apply_skips_next(provider, recipe, at, request) ==
    LET current == apply_provider(provider.provider, recipe, at \o <<1>>, request)
    IN  IF current.kind # "ok"
        THEN WithLog(current, <<at>> \o current.log)
        ELSE LET next == provide_from(recipe, at[1] + 2, request, <<>>)
             IN  IF next.kind # "ok"
                 THEN WithLog(next, <<at>> \o current.log \o next.log)
                 ELSE Returned(chain_result(provider.chain, current.value, next.value),
                               <<at>> \o current.log \o next.log)

chaining_apply_alone(provider, recipe, at, request) ==
    LET current == apply_provider(provider.provider, recipe, at \o <<1>>, request)
    IN  IF current.kind # "ok"
        THEN WithLog(current, <<at>> \o current.log)
        ELSE LET next == provide_from(recipe, at[1] + 1, request, <<>>)
             IN  IF next.kind # "ok"
                 THEN Returned(current.value, <<at>> \o current.log \o next.log)
                 ELSE Returned(chain_result(provider.chain, current.value, next.value),
                               <<at>> \o current.log \o next.log)

\* ChainingProvider.apply_provider
chaining_apply(provider, recipe, at, request) ==
    LET current == apply_provider(provider.provider, recipe, at \o <<1>>, request)
    IN  IF current.kind # "ok"
        THEN WithLog(current, <<at>> \o current.log)
        ELSE LET next == provide_from(recipe, at[1] + 1, request, <<>>)
             IN  IF next.kind # "ok"
                 THEN WithLog(next, <<at>> \o current.log \o next.log)
                 ELSE Returned(chain_result(provider.chain, current.value, next.value),
                               <<at>> \o current.log \o next.log)

\* the table of mergers Overlay.merge reads: cls._load_mergers()
MergersNow == load_mergers(mergers, custom_fields)

overlay_chain_swapped(chain, overlay, next_overlay) ==
    IF chain = "FIRST" THEN merge(overlay, next_overlay, MergersNow)
    ELSE merge(next_overlay, overlay, MergersNow)

\* OverlayProvider._provide_overlay, lines 129-131
overlay_chain(chain, overlay, next_overlay) ==
    IF chain = "FIRST" THEN merge(next_overlay, overlay, MergersNow)
    ELSE merge(overlay, next_overlay, MergersNow)

\* OverlayProvider._provide_overlay, which the static provision calls for an
\* OverlayRequest and for no other request
overlay_apply(provider, recipe, at, request) ==
    IF request.cls # "OverlayRequest"
    THEN Raised(CannotProvideExc(at, <<>>), <<at>>)
    ELSE IF request.overlay_cls \notin DOMAIN provider.overlays
    THEN Raised(CannotProvideExc(at, <<>>), <<at>>)
    ELSE IF provider.chain = "None"
    THEN Returned(provider.overlays[request.overlay_cls], <<at>>)
    ELSE LET overlay == provider.overlays[request.overlay_cls]
             next == provide_from(recipe, at[1] + 1, request, <<>>)
         IN  IF next.kind = "CannotProvide"
             THEN Returned(overlay, <<at>> \o next.log)
             ELSE IF next.kind # "ok"
             THEN WithLog(next, <<at>> \o next.log)
             ELSE Returned(overlay_chain(provider.chain, overlay, next.value),
                           <<at>> \o next.log)

\* Provider.apply_provider(mediator, request) of the provider at place `at` of
\* the recipe: at[1] is its position, the rest the path of child indexes
apply_provider(provider, recipe, at, request) ==
    CASE provider.kind = "leaf" -> leaf_apply(provider, at, request)
      [] provider.kind = "bounding" -> bounding_apply(provider, recipe, at, request)
      [] provider.kind = "concat" -> concat_apply(provider, recipe, at, request)
      [] provider.kind = "chaining" -> chaining_apply(provider, recipe, at, request)
      [] provider.kind = "overlay" -> overlay_apply(provider, recipe, at, request)

\* isinstance(provider, RequestClassDeterminedProvider)
is_request_class_determined(provider) ==
    IF provider.kind = "leaf" THEN provider.probed ELSE TRUE

RECURSIVE maybe_can_process_request_cls(_, _)

\* BoundingProvider / ChainingProvider.maybe_can_process_request_cls
inner_probe(provider, request_cls) ==
    IF is_request_class_determined(provider.provider)
    THEN maybe_can_process_request_cls(provider.provider, request_cls)
    ELSE TRUE

concat_probe_all(providers, request_cls) ==
    \A k \in 1..Len(providers) :
        \/ ~is_request_class_determined(providers[k])
        \/ maybe_can_process_request_cls(providers[k], request_cls)

\* ConcatProvider.maybe_can_process_request_cls
concat_probe(providers, request_cls) ==
    \E k \in 1..Len(providers) :
        \/ ~is_request_class_determined(providers[k])
        \/ maybe_can_process_request_cls(providers[k], request_cls)

\* provider.maybe_can_process_request_cls(request_cls)
maybe_can_process_request_cls(provider, request_cls) ==
    CASE provider.kind = "leaf" -> request_cls \in provider.handles
      [] provider.kind = "bounding" -> inner_probe(provider, request_cls)
      [] provider.kind = "concat" -> concat_probe(provider.providers, request_cls)
      [] provider.kind = "chaining" -> inner_probe(provider, request_cls)
      [] provider.kind = "overlay" -> request_cls = "OverlayRequest"

RECURSIVE provide_from_last_match(_, _, _, _)
provide_from_last_match(recipe, start, request, exceptions) ==
    IF start > Len(recipe)
    THEN Raised(CannotProvideExc(<<0>>, exceptions), <<>>)
    ELSE LET attempt == apply_provider(recipe[start], recipe, <<start>>, request)
             rest == provide_from_last_match(recipe, start + 1, request, exceptions)
         IN  IF attempt.kind = "CannotProvide" \/ rest.kind = "ok"
             THEN WithLog(rest, attempt.log \o rest.log)
             ELSE attempt

\* the mediator's scan of the recipe from position start on (provide is the
\* scan from 1, provide_from_next the scan from the position after the calling
\* provider): the first provider that returns wins, CannotProvide moves on to
\* the next provider, any other error propagates, and an exhausted recipe
\* raises CannotProvide carrying the failures met
provide_from(recipe, start, request, exceptions) ==
    IF start > Len(recipe)
    THEN Raised(CannotProvideExc(<<0>>, exceptions), <<>>)
    ELSE LET attempt == apply_provider(recipe[start], recipe, <<start>>, request)
         IN  IF attempt.kind = "CannotProvide"
             THEN LET rest == provide_from(recipe, start + 1, request,
                                           Append(exceptions, attempt.exc))
                  IN  WithLog(rest, attempt.log \o rest.log)
             ELSE attempt

(***************************************************************************)
(* The recipe search applied to recipes of combinators                     *)
(***************************************************************************)
SeqsUpTo(S, n) == UNION {[1..k -> S] : k \in 0..n}

LoaderLeaf == Leaf("add1", {"LoaderRequest"})
\* a plain Provider, which has no maybe_can_process_request_cls
AnyLeaf == [Leaf("mul2", RequestClasses) EXCEPT !.probed = FALSE]

Leaves == {LoaderLeaf, AnyLeaf, BrokenLeaf}

Checkers == {{"Book"}, {"Person"}}

BoundingProviders == {Bounding(accepts, leaf) : accepts \in Checkers, leaf \in Leaves}

ConcatProviders == {Concat(providers) : providers \in SeqsUpTo(Leaves, MaxChildren)}

ChainingProviders ==
    {Chaining(chain, provider) :
        chain \in {"FIRST", "LAST"},
        provider \in {LoaderLeaf, AnyLeaf, Bounding({"Book"}, LoaderLeaf)}}

Providers == Leaves \cup BoundingProviders \cup ConcatProviders \cup ChainingProviders

\* the recipe of the retort class, searched after the instance recipe: two
\* built-in rules, which leave a DumperRequest at Person unanswered
ClassRecipe == <<Bounding({"Person"}, LoaderLeaf), Bounding({"Book"}, AnyLeaf)>>

\* the recipes searched: an instance recipe followed by the class recipe
Recipes == {instance \o ClassRecipe : instance \in SeqsUpTo(Providers, MaxRecipe)}

NoOutcome == Raised(NoExc, <<>>)

\* the outcomes of the providers the scan from position 1 tries, in order
RECURSIVE scan_attempts(_, _, _)
scan_attempts(recipe, start, request) ==
    IF start > Len(recipe) THEN <<>>
    ELSE LET attempt == apply_provider(recipe[start], recipe, <<start>>, request)
         IN  IF attempt.kind = "CannotProvide"
             THEN <<attempt>> \o scan_attempts(recipe, start + 1, request)
             ELSE <<attempt>>

\* what the probe of each provider of the recipe says of a request class,
\* True for a provider that has no probe
probe_recipe(recipe, request_cls) ==
    [i \in 1..Len(recipe) |->
        IF is_request_class_determined(recipe[i])
        THEN maybe_can_process_request_cls(recipe[i], request_cls)
        ELSE TRUE]

\* mediator.provide(request) is called on a recipe
MediatorAsked ==
    /\ pv_pc = "idle"
    /\ \E recipe \in Recipes, request \in Requests :
          /\ pv_recipe' = recipe
          /\ pv_request' = request
    /\ pv_pc' = "asked"
    /\ UNCHANGED <<pv_attempts, pv_result, pv_probes, notProvider>>

\* the search runs to its end
MediatorProvide ==
    /\ pv_pc = "asked"
    /\ pv_attempts' = scan_attempts(pv_recipe, 1, pv_request)
    /\ pv_result' = provide_from(pv_recipe, 1, pv_request, <<>>)
    /\ pv_probes' = probe_recipe(pv_recipe, pv_request.cls)
    /\ pv_pc' = "done"
    /\ UNCHANGED <<pv_recipe, pv_request, notProvider>>

\* the overlays the providers of the recipes hold
OwnOverlays == {[f |-> <<1>>, g |-> Omitted], [f |-> <<2>>, g |-> <<2>>]}

OverlayProviders ==
    {OverlayProvider([c \in {"Ov"} |-> overlay], chain) :
        overlay \in OwnOverlays, chain \in {"None", "FIRST", "LAST"}}
    \cup {OverlayProvider([c \in {"OtherOv"} |-> [f |-> <<1>>, g |-> <<1>>]], "FIRST")}

\* recipes of overlay providers, with a provider that breaks and one that is
\* bound to a location
OverlayRecipes ==
    SeqsUpTo(OverlayProviders
                \cup {BrokenLeaf,
                      Bounding({"Book"}, OverlayProvider([c \in {"Ov"} |-> [f |-> <<2>>, g |-> <<2>>]],
                                                         "LAST"))},
             MaxRecipe)

\* recipes of chaining providers in front of the class recipe
ChainRecipes ==
    {instance \o ClassRecipe :
        instance \in SeqsUpTo({Chaining("FIRST", LoaderLeaf), Chaining("LAST", AnyLeaf),
                               Chaining("FIRST", Bounding({"Book"}, LoaderLeaf)),
                               AnyLeaf, BrokenLeaf}, MaxRecipe)}

RECURSIVE ProviderAt(_, _)
\* the provider that stands at the path of child indexes under a provider
ProviderAt(provider, path) ==
    IF path = <<>> THEN provider
    ELSE IF provider.kind = "concat" THEN ProviderAt(provider.providers[Head(path)], Tail(path))
    ELSE ProviderAt(provider.provider, Tail(path))

\* an OverlayProvider called in the search merged two overlays, which loads
\* the mergers of the overlay class
MergeRan(recipe, request, log) ==
    \E n \in 1..Len(log) :
        LET provider == ProviderAt(recipe[log[n][1]], Tail(log[n]))
        IN  /\ provider.kind = "overlay"
            /\ request.cls = "OverlayRequest"
            /\ request.overlay_cls \in DOMAIN provider.overlays
            /\ provider.chain # "None"
            /\ provide_from(recipe, log[n][1] + 1, request, <<>>).kind = "ok"

\* mediator.provide(request) is called for a converter on a recipe of
\* chaining providers
ChainAsked ==
    /\ pv_pc = "idle"
    /\ \E recipe \in ChainRecipes, request \in Requests :
          /\ pv_recipe' = recipe
          /\ pv_request' = request
    /\ pv_pc' = "asked"
    /\ UNCHANGED <<pv_attempts, pv_result, pv_probes, notProvider>>

\* mediator.provide(OverlayRequest(...)) is called on a recipe of overlay
\* providers
OverlayAsked ==
    /\ pv_pc = "idle"
    /\ \E recipe \in OverlayRecipes, request \in OverlayRequests :
          /\ pv_recipe' = recipe
          /\ pv_request' = request
    /\ pv_pc' = "asked"
    /\ UNCHANGED <<pv_attempts, pv_result, pv_probes, notProvider>>

\* the search runs to its end; the merges made on the way load the mergers
ChainSearched ==
    /\ pv_pc = "asked"
    /\ pv_attempts' = scan_attempts(pv_recipe, 1, pv_request)
    /\ pv_result' = provide_from(pv_recipe, 1, pv_request, <<>>)
    /\ pv_probes' = probe_recipe(pv_recipe, pv_request.cls)
    /\ mergers' = IF MergeRan(pv_recipe, pv_request,
                              provide_from(pv_recipe, 1, pv_request, <<>>).log)
                  THEN MergersNow ELSE mergers
    /\ pv_pc' = "done"
    /\ UNCHANGED <<pv_recipe, pv_request, custom_fields, ps_pc, ps_is_class, ps_answers,
                   ps_idx, ps_asked, stacked_overlay, ps_result, rtVars, rcVars>>

(***************************************************************************)
(* provide_schema on a recipe of overlay providers                         *)
(***************************************************************************)
\* the request provide_schema makes for the type (1) and for its parents (2..)
LayerRequest(i) == [cls |-> "OverlayRequest", loc |-> i, overlay_cls |-> "Ov"]

HeldOverlay(overlay, chain) == OverlayProvider([c \in {"Ov"} |-> overlay], chain)

\* the providers of the recipes provide_schema runs on: overlay providers
\* bound to the type or to its first parent or to no location, with and
\* without a chain mode, and ConcatProviders with a child that breaks or chains
SchemaProviders ==
    {Bounding({1}, HeldOverlay([f |-> <<1>>, g |-> Omitted], "None")),
     Bounding({1}, HeldOverlay([f |-> <<1>>, g |-> Omitted], "FIRST")),
     Bounding({2}, HeldOverlay([f |-> <<2>>, g |-> <<2>>], "None")),
     Bounding({2}, HeldOverlay([f |-> Omitted, g |-> <<1>>], "LAST")),
     HeldOverlay([f |-> <<2>>, g |-> <<1>>], "None"),
     HeldOverlay([f |-> Omitted, g |-> <<2>>], "FIRST"),
     Concat(<<Bounding({1}, HeldOverlay([f |-> <<1>>, g |-> <<1>>], "None")), BrokenLeaf,
              HeldOverlay([f |-> <<2>>, g |-> <<2>>], "None")>>),
     Concat(<<Bounding({2}, HeldOverlay([f |-> <<1>>, g |-> <<2>>], "None")),
              HeldOverlay([f |-> <<2>>, g |-> Omitted], "FIRST")>>),
     Bounding({2}, BrokenLeaf)}

SchemaRecipes == SeqsUpTo(SchemaProviders, MaxRecipe)

\* what mediator.provide answers provide_schema for a request
SearchAnswer(recipe, request) ==
    LET outcome == provide_from(recipe, 1, request, <<>>)
    IN  IF outcome.kind = "ok"
        THEN [kind |-> "overlay", ov |-> outcome.value,
              loads |-> MergeRan(recipe, request, outcome.log)]
        ELSE IF outcome.kind = "CannotProvide" THEN RaisedCannotProvide
        ELSE RaisedOther

\* provide_schema is entered with a mediator that searches the recipe
ProvideSchemaOnRecipe ==
    /\ ps_pc = "idle"
    /\ \E n \in 1..MaxAncestors, is_class \in BOOLEAN :
            /\ ps_answers' = [i \in 1..(n + 1) |-> SearchAnswer(pv_recipe, LayerRequest(i))]
            /\ ps_is_class' = is_class
    /\ ps_pc' = "own"
    /\ ps_idx' = 2
    /\ ps_asked' = <<>>
    /\ stacked_overlay' = AllOmitted
    /\ ps_result' = NoResult
    /\ UNCHANGED <<custom_fields, mergers, notOverlay>>

(***************************************************************************)
(* facade/retort.py: AdornedRetort                                         *)
(***************************************************************************)
\* the type descriptors converters are asked for
Types == Locations

DebugTrails == {"DISABLE", "FIRST", "ALL"}

\* a dict entry that is not there
Absent == NoValue

EmptyDict == [tp \in Types |-> Absent]

\* ValueProvider(request_cls, value): answers requests of that class by value
ValueProvider(request_cls, value) == Leaf(value, {request_cls})

\* AdornedRetort._get_config_recipe
get_config_recipe(self) ==
    <<ValueProvider("StrictCoercionRequest", IF self.strict_coercion THEN "True" ELSE "False"),
      ValueProvider("DebugTrailRequest", self.debug_trail)>>

\* the _calculate_derived of the base classes: the recipe the searches run on
\* is the instance recipe, then the configuration, then the class recipe
full_recipe_of(self) == self.inc_instance_recipe \o get_config_recipe(self) \o ClassRecipe

calculate_derived_keeps_caches(self, heap_len) ==
    [self EXCEPT !.full_recipe = full_recipe_of(self),
                 !.loader_cache = IF @ = 0 THEN heap_len + 1 ELSE @,
                 !.dumper_cache = IF @ = 0 THEN heap_len + 2 ELSE @]

\* AdornedRetort._calculate_derived: the two caches become new empty dicts,
\* which are put at heap_len + 1 and heap_len + 2
calculate_derived(self, heap_len) ==
    [self EXCEPT !.full_recipe = full_recipe_of(self),
                 !.loader_cache = heap_len + 1,
                 !.dumper_cache = heap_len + 2]

\* AdornedRetort.__init__
init_retort(recipe, strict_coercion, debug_trail, heap_len) ==
    calculate_derived([inc_instance_recipe |-> recipe,
                       strict_coercion |-> strict_coercion,
                       debug_trail |-> debug_trail,
                       full_recipe |-> <<>>,
                       loader_cache |-> 0,
                       dumper_cache |-> 0], heap_len)

\* self._clone(): a shallow copy, which refers to the dicts self refers to
\* until _calculate_derived runs on it at the end of the with block
clone(self) == self

replace_ignores_none(self, strict_coercion, debug_trail, heap_len) ==
    calculate_derived(
        [clone(self) EXCEPT
            !.strict_coercion = (strict_coercion = "True"),
            !.debug_trail = IF debug_trail # "None" THEN debug_trail ELSE @],
        heap_len)

\* AdornedRetort.replace; an option that is not passed is "None"
replace(self, strict_coercion, debug_trail, heap_len) ==
    calculate_derived(
        [clone(self) EXCEPT
            !.strict_coercion = IF strict_coercion # "None" THEN strict_coercion = "True" ELSE @,
            !.debug_trail = IF debug_trail # "None" THEN debug_trail ELSE @],
        heap_len)

extend_appends(self, recipe, heap_len) ==
    calculate_derived([clone(self) EXCEPT !.inc_instance_recipe = @ \o recipe], heap_len)

\* AdornedRetort.extend
extend(self, recipe, heap_len) ==
    calculate_derived([clone(self) EXCEPT !.inc_instance_recipe = recipe \o @], heap_len)

\* self._facade_provide(request): the search of the full recipe from its start
facade_provide(self, request) == provide_from(self.full_recipe, 1, request, <<>>)

\* lines 245-255 and 270-280
wrap_for_trail(self, found) ==
    IF found.kind # "ok" THEN found
    ELSE IF self.debug_trail = "FIRST"
    THEN Returned(TrailRenderingWrapper(found.value), found.log)
    ELSE found

\* AdornedRetort._make_loader
make_loader(self, tp) ==
    wrap_for_trail(self, facade_provide(self, [cls |-> "LoaderRequest", loc |-> tp]))

\* AdornedRetort._make_dumper
make_dumper(self, tp) ==
    wrap_for_trail(self, facade_provide(self, [cls |-> "DumperRequest", loc |-> tp]))

\* what a cached lookup gives: the heap after it, the outcome, whether the
\* cache held the entry
Looked(heap, outcome, hit) == [heap |-> heap, outcome |-> outcome, hit |-> hit]

cached_get_never_stores(heap, cache, tp, made) ==
    IF heap[cache][tp] # Absent
    THEN Looked(heap, Returned(heap[cache][tp], <<>>), TRUE)
    ELSE Looked(heap, made, FALSE)

\* a body that leaves an entry behind when making the converter raises
cached_get_stores_failure(heap, cache, tp, made) ==
    IF heap[cache][tp] # Absent
    THEN Looked(heap, Returned(heap[cache][tp], <<>>), TRUE)
    ELSE Looked([heap EXCEPT ![cache][tp] = TrailRenderingWrapper(made.value)], made, FALSE)

\* the body shared by get_loader and get_dumper: return the entry of the
\* cache, or else make the converter, store it and return it; when making it
\* raises nothing is stored
cached_get(heap, cache, tp, made) ==
    IF heap[cache][tp] # Absent
    THEN Looked(heap, Returned(heap[cache][tp], <<>>), TRUE)
    ELSE IF made.kind # "ok"
    THEN Looked(heap, made, FALSE)
    ELSE Looked([heap EXCEPT ![cache][tp] = made.value], made, FALSE)

\* AdornedRetort.get_loader
get_loader(heap, self, tp) == cached_get(heap, self.loader_cache, tp, make_loader(self, tp))

\* AdornedRetort.get_dumper
get_dumper(heap, self, tp) == cached_get(heap, self.dumper_cache, tp, make_dumper(self, tp))

\* is_generic_class(type(data)) for the data dump is given without a type
is_generic_class(tp) == tp = "Generic"

(***************************************************************************)
(* The calls made on retorts                                               *)
(***************************************************************************)
\* the recipes extend is called with
ExtendRecipes == {<<AnyLeaf>>, <<Bounding({"Book"}, LoaderLeaf), Chaining("FIRST", LoaderLeaf)>>}

\* the options replace is called with
ReplaceOptions == {<<"None", "None">>, <<"False", "None">>, <<"None", "FIRST">>, <<"True", "DISABLE">>}

\* the data load and dump are called with: a value and its runtime type
LoadData == {3, -1}
DataTypes == Types \cup {"Generic"}

NoCall ==
    [op |-> "init", self |-> 1, tp |-> "Book", hit |-> FALSE, search |-> "none",
     prior |-> "never", kind |-> "ok", value |-> NoValue, applied |-> NotApplied,
     recipe |-> <<>>, options |-> <<"None", "None">>, new |-> 0]

\* whether a search for this cache entry ran before, and how it ended
Prior(self, cache, tp) ==
    IF [self |-> self, cache |-> cache, tp |-> tp, ok |-> TRUE] \in rt_searches THEN "resolved"
    ELSE IF [self |-> self, cache |-> cache, tp |-> tp, ok |-> FALSE] \in rt_searches THEN "failed"
    ELSE "never"

\* a call of get_loader/get_dumper (directly or by load/dump) and its record
CachedCall(op, r, cache, tp, looked, data) ==
    /\ rt_heap' = looked.heap
    /\ rt_searches' = IF looked.hit THEN rt_searches
                      ELSE rt_searches \cup {[self |-> r, cache |-> cache, tp |-> tp,
                                              ok |-> looked.outcome.kind = "ok"]}
    /\ rt_last' = [NoCall EXCEPT
            !.op = op, !.self = r, !.tp = tp, !.hit = looked.hit,
            !.search = IF looked.hit THEN "none"
                       ELSE IF looked.outcome.kind = "ok" THEN "ok" ELSE "failed",
            !.prior = Prior(r, cache, tp),
            !.kind = looked.outcome.kind,
            !.value = looked.outcome.value,
            !.applied = IF data # <<>> /\ looked.outcome.kind = "ok"
                        THEN Apply(looked.outcome.value, data[1]) ELSE NotApplied]
    /\ rt_ops' = rt_ops + 1
    /\ UNCHANGED <<rt_retorts, rt_added, notRetort>>

GetLoader ==
    /\ rt_ops < MaxOps
    /\ \E r \in 1..Len(rt_retorts), tp \in Types :
          CachedCall("get_loader", r, "loader", tp, get_loader(rt_heap, rt_retorts[r], tp), <<>>)

GetDumper ==
    /\ rt_ops < MaxOps
    /\ \E r \in 1..Len(rt_retorts), tp \in Types :
          CachedCall("get_dumper", r, "dumper", tp, get_dumper(rt_heap, rt_retorts[r], tp), <<>>)

\* AdornedRetort.load: self.get_loader(tp)(data)
Load ==
    /\ rt_ops < MaxOps
    /\ \E r \in 1..Len(rt_retorts), tp \in Types, data \in LoadData :
          CachedCall("load", r, "loader", tp, get_loader(rt_heap, rt_retorts[r], tp), <<data>>)

\* AdornedRetort.dump: tp is given, or it is None and type(data) is taken,
\* which must not be a generic class
Dump ==
    /\ rt_ops < MaxOps
    /\ \E r \in 1..Len(rt_retorts), data \in LoadData :
          \/ \E tp \in Types :
                CachedCall("dump", r, "dumper", tp, get_dumper(rt_heap, rt_retorts[r], tp), <<data>>)
          \/ \E data_type \in DataTypes :
                /\ ~is_generic_class(data_type)
                /\ CachedCall("dump", r, "dumper", data_type,
                              get_dumper(rt_heap, rt_retorts[r], data_type), <<data>>)
          \/ \E data_type \in DataTypes :
                /\ is_generic_class(data_type)
                /\ rt_last' = [NoCall EXCEPT !.op = "dump", !.self = r, !.tp = data_type,
                                             !.kind = "ValueError"]
                /\ rt_ops' = rt_ops + 1
                /\ UNCHANGED <<rt_retorts, rt_heap, rt_searches, rt_added, notRetort>>

\* a new instance is put after the others, with its two new dicts
Created(op, r, instance, recipe, options) ==
    /\ rt_retorts' = Append(rt_retorts, instance)
    /\ rt_heap' = rt_heap \o <<EmptyDict, EmptyDict>>
    /\ rt_added' = Append(rt_added, IF op = "extend" THEN Append(rt_added[r], recipe)
                                    ELSE rt_added[r])
    /\ rt_last' = [NoCall EXCEPT !.op = op, !.self = r, !.recipe = recipe,
                                 !.options = options, !.new = Len(rt_retorts) + 1]
    /\ rt_ops' = rt_ops + 1
    /\ UNCHANGED <<rt_searches, notRetort>>

Replace ==
    /\ rt_ops < MaxOps
    /\ Len(rt_retorts) < MaxRetorts
    /\ \E r \in 1..Len(rt_retorts), options \in ReplaceOptions :
          Created("replace", r, replace(rt_retorts[r], options[1], options[2], Len(rt_heap)),
                  <<>>, options)

Extend ==
    /\ rt_ops < MaxOps
    /\ Len(rt_retorts) < MaxRetorts
    /\ \E r \in 1..Len(rt_retorts), recipe \in ExtendRecipes :
          Created("extend", r, extend(rt_retorts[r], recipe, Len(rt_heap)), recipe, <<"None", "None">>)

\* the recipes the first retort is constructed with
InitRecipes == {<<>>, <<Bounding({"Book"}, LoaderLeaf)>>}

(***************************************************************************)
(* Two threads in AdornedRetort.get_loader of one retort                   *)
(***************************************************************************)
Threads == {1, 2}

\* a converter object: the function and the call of _make_loader that made it
MadeBy(converter, thread) == [conv |-> converter, by |-> thread]
NoObject == MadeBy(NoValue, 0)

EmptyCache == [tp \in Types |-> NoObject]

store_drops_others(cache, tp, loader_) == [EmptyCache EXCEPT ![tp] = loader_]

\* self._loader_cache[tp] = loader_
store(cache, tp, loader_) == [cache EXCEPT ![tp] = loader_]

\* get_loader(tp) is called
RaceCall(t) ==
    /\ rc_pc[t] \in {"idle", "returned", "raised"}
    /\ \E tp \in Types : rc_tp' = [rc_tp EXCEPT ![t] = tp]
    /\ rc_pc' = [rc_pc EXCEPT ![t] = "lookup"]
    /\ rc_loader' = [rc_loader EXCEPT ![t] = NoObject]
    /\ rc_ret' = [rc_ret EXCEPT ![t] = NoObject]
    /\ UNCHANGED <<rc_retort, rc_cache, notRace>>

\* try: return self._loader_cache[tp]; except KeyError: pass
RaceLookup(t) ==
    /\ rc_pc[t] = "lookup"
    /\ IF rc_cache[rc_tp[t]] # NoObject
       THEN /\ rc_ret' = [rc_ret EXCEPT ![t] = rc_cache[rc_tp[t]]]
            /\ rc_pc' = [rc_pc EXCEPT ![t] = "returned"]
       ELSE /\ rc_pc' = [rc_pc EXCEPT ![t] = "make"]
            /\ UNCHANGED rc_ret
    /\ UNCHANGED <<rc_retort, rc_cache, rc_tp, rc_loader, notRace>>

\* loader_ = self._make_loader(tp)
RaceMake(t) ==
    /\ rc_pc[t] = "make"
    /\ LET made == make_loader(rc_retort, rc_tp[t])
       IN  IF made.kind = "ok"
           THEN /\ rc_loader' = [rc_loader EXCEPT ![t] = MadeBy(made.value, t)]
                /\ rc_pc' = [rc_pc EXCEPT ![t] = "store"]
           ELSE /\ rc_pc' = [rc_pc EXCEPT ![t] = "raised"]
                /\ UNCHANGED rc_loader
    /\ UNCHANGED <<rc_retort, rc_cache, rc_tp, rc_ret, notRace>>

\* self._loader_cache[tp] = loader_; return loader_
RaceStore(t) ==
    /\ rc_pc[t] = "store"
    /\ rc_cache' = store(rc_cache, rc_tp[t], rc_loader[t])
    /\ rc_ret' = [rc_ret EXCEPT ![t] = rc_loader[t]]
    /\ rc_pc' = [rc_pc EXCEPT ![t] = "returned"]
    /\ UNCHANGED <<rc_retort, rc_tp, rc_loader, notRace>>

(***************************************************************************)
(* Initial states and specifications                                        *)
(***************************************************************************)
\* the Overlay subclass is defined; its table of mergers may have been
\* loaded by an earlier merge
OverlayInit ==
    /\ custom_fields \in SUBSET FieldNames
    /\ mergers \in {NotLoaded, load_mergers(NotLoaded, custom_fields)}
    /\ ps_pc = "idle"
    /\ ps_is_class = TRUE
    /\ ps_answers = <<RaisedCannotProvide>>
    /\ ps_idx = 2
    /\ ps_asked = <<>>
    /\ stacked_overlay = AllOmitted
    /\ ps_result = NoResult
    /\ pv_pc = "idle"
    /\ pv_recipe = <<>>
    /\ pv_request = [cls |-> "LoaderRequest", loc |-> "Book"]
    /\ pv_attempts = <<>>
    /\ pv_result = NoOutcome
    /\ pv_probes = <<>>
    /\ rt_retorts = <<>>
    /\ rt_heap = <<>>
    /\ rt_searches = {}
    /\ rt_added = <<>>
    /\ rt_ops = 0
    /\ rt_last = NoCall
    /\ rc_retort = init_retort(<<>>, TRUE, "ALL", 0)
    /\ rc_cache = EmptyCache
    /\ rc_pc = [t \in Threads |-> "idle"]
    /\ rc_tp = [t \in Threads |-> "Book"]
    /\ rc_loader = [t \in Threads |-> NoObject]
    /\ rc_ret = [t \in Threads |-> NoObject]

ProviderInit ==
    /\ custom_fields = {}
    /\ mergers = NotLoaded
    /\ ps_pc = "idle"
    /\ ps_is_class = TRUE
    /\ ps_answers = <<RaisedCannotProvide>>
    /\ ps_idx = 2
    /\ ps_asked = <<>>
    /\ stacked_overlay = AllOmitted
    /\ ps_result = NoResult
    /\ pv_pc = "idle"
    /\ pv_recipe = <<>>
    /\ pv_request = [cls |-> "LoaderRequest", loc |-> "Book"]
    /\ pv_attempts = <<>>
    /\ pv_result = NoOutcome
    /\ pv_probes = <<>>
    /\ rt_retorts = <<>>
    /\ rt_heap = <<>>
    /\ rt_searches = {}
    /\ rt_added = <<>>
    /\ rt_ops = 0
    /\ rt_last = NoCall
    /\ rc_retort = init_retort(<<>>, TRUE, "ALL", 0)
    /\ rc_cache = EmptyCache
    /\ rc_pc = [t \in Threads |-> "idle"]
    /\ rc_tp = [t \in Threads |-> "Book"]
    /\ rc_loader = [t \in Threads |-> NoObject]
    /\ rc_ret = [t \in Threads |-> NoObject]

\* Retort(recipe=...) was constructed, with the default options
RetortInit ==
    /\ custom_fields = {}
    /\ mergers = NotLoaded
    /\ ps_pc = "idle"
    /\ ps_is_class = TRUE
    /\ ps_answers = <<RaisedCannotProvide>>
    /\ ps_idx = 2
    /\ ps_asked = <<>>
    /\ stacked_overlay = AllOmitted
    /\ ps_result = NoResult
    /\ pv_pc = "idle"
    /\ pv_recipe = <<>>
    /\ pv_request = [cls |-> "LoaderRequest", loc |-> "Book"]
    /\ pv_attempts = <<>>
    /\ pv_result = NoOutcome
    /\ pv_probes = <<>>
    /\ \E recipe \in InitRecipes :
          /\ rt_retorts = <<init_retort(recipe, TRUE, "ALL", 0)>>
          /\ rt_added = <<<<recipe>>>>
    /\ rt_heap = <<EmptyDict, EmptyDict>>
    /\ rt_searches = {}
    /\ rt_ops = 0
    /\ rt_last = NoCall
    /\ rc_retort = init_retort(<<>>, TRUE, "ALL", 0)
    /\ rc_cache = EmptyCache
    /\ rc_pc = [t \in Threads |-> "idle"]
    /\ rc_tp = [t \in Threads |-> "Book"]
    /\ rc_loader = [t \in Threads |-> NoObject]
    /\ rc_ret = [t \in Threads |-> NoObject]

\* a retort was constructed and no thread has called it yet
RaceInit ==
    /\ custom_fields = {}
    /\ mergers = NotLoaded
    /\ ps_pc = "idle"
    /\ ps_is_class = TRUE
    /\ ps_answers = <<RaisedCannotProvide>>
    /\ ps_idx = 2
    /\ ps_asked = <<>>
    /\ stacked_overlay = AllOmitted
    /\ ps_result = NoResult
    /\ pv_pc = "idle"
    /\ pv_recipe = <<>>
    /\ pv_request = [cls |-> "LoaderRequest", loc |-> "Book"]
    /\ pv_attempts = <<>>
    /\ pv_result = NoOutcome
    /\ pv_probes = <<>>
    /\ rt_retorts = <<>>
    /\ rt_heap = <<>>
    /\ rt_searches = {}
    /\ rt_added = <<>>
    /\ rt_ops = 0
    /\ rt_last = NoCall
    /\ \E recipe \in InitRecipes \cup ExtendRecipes, debug_trail \in DebugTrails :
          rc_retort = init_retort(recipe, TRUE, debug_trail, 0)
    /\ rc_cache = EmptyCache
    /\ rc_pc = [t \in Threads |-> "idle"]
    /\ rc_tp = [t \in Threads |-> "Book"]
    /\ rc_loader = [t \in Threads |-> NoObject]
    /\ rc_ret = [t \in Threads |-> NoObject]

\* an overlay class with its custom mergers is defined and nothing was asked
ChainInit ==
    /\ custom_fields \in SUBSET FieldNames
    /\ mergers = NotLoaded
    /\ ps_pc = "idle"
    /\ ps_is_class = TRUE
    /\ ps_answers = <<RaisedCannotProvide>>
    /\ ps_idx = 2
    /\ ps_asked = <<>>
    /\ stacked_overlay = AllOmitted
    /\ ps_result = NoResult
    /\ pv_pc = "idle"
    /\ pv_recipe = <<>>
    /\ pv_request = [cls |-> "LoaderRequest", loc |-> "Book"]
    /\ pv_attempts = <<>>
    /\ pv_result = NoOutcome
    /\ pv_probes = <<>>
    /\ rt_retorts = <<>>
    /\ rt_heap = <<>>
    /\ rt_searches = {}
    /\ rt_added = <<>>
    /\ rt_ops = 0
    /\ rt_last = NoCall
    /\ rc_retort = init_retort(<<>>, TRUE, "ALL", 0)
    /\ rc_cache = EmptyCache
    /\ rc_pc = [t \in Threads |-> "idle"]
    /\ rc_tp = [t \in Threads |-> "Book"]
    /\ rc_loader = [t \in Threads |-> NoObject]
    /\ rc_ret = [t \in Threads |-> NoObject]

\* an overlay class is defined and a retort holds a recipe of overlay providers
SchemaInit ==
    /\ custom_fields \in SUBSET FieldNames
    /\ mergers = NotLoaded
    /\ ps_pc = "idle"
    /\ ps_is_class = TRUE
    /\ ps_answers = <<RaisedCannotProvide>>
    /\ ps_idx = 2
    /\ ps_asked = <<>>
    /\ stacked_overlay = AllOmitted
    /\ ps_result = NoResult
    /\ pv_pc = "idle"
    /\ pv_recipe \in SchemaRecipes
    /\ pv_request = [cls |-> "LoaderRequest", loc |-> "Book"]
    /\ pv_attempts = <<>>
    /\ pv_result = NoOutcome
    /\ pv_probes = <<>>
    /\ rt_retorts = <<>>
    /\ rt_heap = <<>>
    /\ rt_searches = {}
    /\ rt_added = <<>>
    /\ rt_ops = 0
    /\ rt_last = NoCall
    /\ rc_retort = init_retort(<<>>, TRUE, "ALL", 0)
    /\ rc_cache = EmptyCache
    /\ rc_pc = [t \in Threads |-> "idle"]
    /\ rc_tp = [t \in Threads |-> "Book"]
    /\ rc_loader = [t \in Threads |-> NoObject]
    /\ rc_ret = [t \in Threads |-> NoObject]

OverlayNext ==
    \/ ProvideSchemaCall
    \/ ProvideOwnOverlay
    \/ ProvideParentOverlay
    \/ ReturnSchema

SpecOverlay == OverlayInit /\ [][OverlayNext]_vars

ProviderNext ==
    \/ MediatorAsked
    \/ MediatorProvide

SpecProvider == ProviderInit /\ [][ProviderNext]_vars

ChainNext ==
    \/ ChainAsked
    \/ OverlayAsked
    \/ ChainSearched

SpecChain == ChainInit /\ [][ChainNext]_vars

SchemaNext ==
    \/ ProvideSchemaOnRecipe
    \/ ProvideOwnOverlay
    \/ ProvideParentOverlay
    \/ ReturnSchema

SpecSchema == SchemaInit /\ [][SchemaNext]_vars

RetortNext ==
    \/ GetLoader
    \/ GetDumper
    \/ Load
    \/ Dump
    \/ Replace
    \/ Extend

SpecRetort == RetortInit /\ [][RetortNext]_vars

RaceNext ==
    \/ \E t \in Threads : RaceCall(t)
    \/ \E t \in Threads : RaceLookup(t)
    \/ \E t \in Threads : RaceMake(t)
    \/ \E t \in Threads : RaceStore(t)

SpecRace == RaceInit /\ [][RaceNext]_vars

(***************************************************************************)
(* Claims about provide_schema, checked under SpecOverlay                  *)
(***************************************************************************)
\* the indexes of ps_answers provide_schema consults: the type itself and,
\* for a class, its parents, nearest first
LayerIndexes == IF ps_is_class THEN 1..Len(ps_answers) ELSE {1}

Specifies(i, fn) ==
    /\ ps_answers[i].kind = "overlay"
    /\ ps_answers[i].ov[fn] # Omitted

\* the most-derived layer that specifies fn, 0 when no layer does
MostDerivedSpecifying(fn) ==
    IF \E i \in LayerIndexes : Specifies(i, fn)
    THEN CHOOSE i \in LayerIndexes :
            /\ Specifies(i, fn)
            /\ \A j \in LayerIndexes : Specifies(j, fn) => i <= j
    ELSE 0

\* every request was answered by an overlay or, for a parent, CannotProvide:
\* the walk ran to its end and to_schema was called
ConversionReached ==
    /\ ps_pc \in {"returned", "raised"}
    /\ ps_answers[1].kind = "overlay"
    /\ \A i \in LayerIndexes : ps_answers[i].kind # "OtherError"

\* C1: with only the default per-field merge, every field of the schema
\* provide_schema returns has the value of the most-derived layer that
\* specifies it (the type's own overlay, then the parents nearest first);
\* parents whose request raised CannotProvide do not count.
C1_MostDerivedLayerWins ==
    (ps_pc = "returned" /\ custom_fields = {}) =>
        \A fn \in FieldNames :
            /\ MostDerivedSpecifying(fn) # 0
            /\ ps_result.fields[fn] = ps_answers[MostDerivedSpecifying(fn)].ov[fn]

\* f is inherited over a parent that raised CannotProvide, g is specified by
\* the type and by a parent with another value
C1_Witness ==
    /\ ps_pc = "returned"
    /\ custom_fields = {}
    /\ Len(ps_answers) = 3
    /\ ps_answers[1].kind = "overlay"
    /\ ps_answers[1].ov["f"] = Omitted
    /\ ps_answers[2].kind = "CannotProvide"
    /\ ps_answers[3].kind = "overlay"
    /\ ps_answers[3].ov["f"] = <<2>>
    /\ ps_answers[1].ov["g"] = <<1>>
    /\ ps_answers[3].ov["g"] = <<2>>
    /\ ps_result.fields = [fn \in FieldNames |-> IF fn = "f" THEN <<2>> ELSE <<1>>]

\* the case of C2: the type (Derived) and exactly one parent (Base) answer with
\* an overlay, both specify fn, and fn has a custom merge function
DerivedBaseCase(b, fn) ==
    /\ ps_pc = "returned"
    /\ ps_is_class
    /\ fn \in custom_fields
    /\ b \in 2..Len(ps_answers)
    /\ Specifies(1, fn)
    /\ Specifies(b, fn)
    /\ \A i \in 2..Len(ps_answers) : i # b => ps_answers[i].kind = "CannotProvide"

\* C2 as stated: the custom function gets Derived's value first, Base's second.
C2_DerivedFirst ==
    \A fn \in FieldNames : \A b \in 2..Len(ps_answers) :
        DerivedBaseCase(b, fn) =>
            ps_result.fields[fn] = custom_merge(ps_answers[1].ov[fn], ps_answers[b].ov[fn])

\* C2 amended: the custom function is called as merger(self, old, new) with
\* Base's value (the parent's, old) first and Derived's value (new) second.
C2_BaseFirst ==
    \A fn \in FieldNames : \A b \in 2..Len(ps_answers) :
        DerivedBaseCase(b, fn) =>
            ps_result.fields[fn] = custom_merge(ps_answers[b].ov[fn], ps_answers[1].ov[fn])

C2_Witness ==
    /\ DerivedBaseCase(2, "f")
    /\ ps_answers[1].ov["f"] = <<1>>
    /\ ps_answers[2].ov["f"] = <<2>>
    /\ ps_result.fields["f"] = <<2, 1>>

\* C3: provide_schema returns a Schema only when no field of the stacked
\* overlay is Omitted, and the Schema holds the overlay's values; when a field
\* is still Omitted after the walk it raises ValueError (not CannotProvide) and
\* no field is filled in.
C3_SchemaIsComplete ==
    /\ ps_pc = "returned" =>
          /\ ps_result.kind = "Schema"
          /\ ps_result.fields = stacked_overlay
          /\ \A fn \in FieldNames : ps_result.fields[fn] # Omitted
    /\ (ConversionReached /\ omitted_fields(stacked_overlay) # {}) =>
          /\ ps_pc = "raised"
          /\ ps_result.kind = "ValueError"

\* g is Omitted in every layer, also after a parent was merged
C3_Witness ==
    /\ ps_pc = "raised"
    /\ ps_result.kind = "ValueError"
    /\ ps_is_class
    /\ Len(ps_asked) = 3
    /\ ps_answers[2].kind = "overlay"
    /\ ps_answers[2].ov["f"] # Omitted
    /\ stacked_overlay["f"] # Omitted
    /\ stacked_overlay["g"] = Omitted

(***************************************************************************)
(* Claims about the combinators and the search, checked under SpecProvider *)
(***************************************************************************)
\* the outcome of the recipe provider at position k, when the scan tried it
Attempted(k) == pv_pc = "done" /\ k \in 1..Len(pv_attempts)

\* the outcome of child i of the recipe provider at position k, taken alone
ChildOutcome(k, i, child) == apply_provider(child, pv_recipe, <<k, i>>, pv_request)

\* the apply_provider calls an outcome's log holds for the children of k
ChildCalls(k, log) == SelectSeq(log, LAMBDA at : Len(at) = 2 /\ at[1] = k)

\* C4: a ConcatProvider tries its children in order and returns the result of
\* the first child that succeeds (those before it raising CannotProvide) and
\* invokes no later child; when every child raises CannotProvide it raises one
\* CannotProvide whose children are the n child failures, in child order.
C4_ConcatFirstSuccessOrAggregate ==
    \A k \in 1..Len(pv_recipe) :
        (Attempted(k) /\ pv_recipe[k].kind = "concat") =>
            LET providers == pv_recipe[k].providers
                n == Len(providers)
                out == pv_attempts[k]
                child(i) == ChildOutcome(k, i, providers[i])
            IN  /\ \A i \in 1..n :
                     (child(i).kind = "ok" /\ \A j \in 1..(i - 1) : child(j).kind = "CannotProvide")
                        => /\ out.kind = "ok"
                           /\ out.value = child(i).value
                           /\ ChildCalls(k, out.log) = [j \in 1..i |-> <<k, j>>]
                /\ (\A i \in 1..n : child(i).kind = "CannotProvide")
                        => /\ out.kind = "CannotProvide"
                           /\ out.exc.at = <<k>>
                           /\ out.exc.children = [i \in 1..n |-> child(i).exc]
                           /\ ChildCalls(k, out.log) = [j \in 1..n |-> <<k, j>>]

\* the first ConcatProvider fails with both child failures, the second
\* returns what its second child returns
C4_Witness ==
    /\ pv_pc = "done"
    /\ pv_request.cls = "DumperRequest"
    /\ pv_recipe = <<Concat(<<LoaderLeaf, LoaderLeaf>>), Concat(<<LoaderLeaf, AnyLeaf>>)>> \o ClassRecipe
    /\ Len(pv_attempts) = 2
    /\ pv_attempts[1].exc.children = <<CannotProvideExc(<<1, 1>>, <<>>), CannotProvideExc(<<1, 2>>, <<>>)>>
    /\ pv_attempts[2].value = Prim("mul2")
    /\ pv_result.value = Prim("mul2")

\* C5: the converter a ChainingProvider returns maps every x to
\* next(current(x)) with Chain.FIRST and to current(next(x)) with Chain.LAST,
\* current being its own provider's converter and next the converter the
\* search continued after it finds.
C5_ChainingOrder ==
    \A k \in 1..Len(pv_recipe) :
        (Attempted(k) /\ pv_recipe[k].kind = "chaining" /\ pv_attempts[k].kind = "ok") =>
            LET current == ChildOutcome(k, 1, pv_recipe[k].provider).value
                next == provide_from(pv_recipe, k + 1, pv_request, <<>>).value
                chained == pv_attempts[k].value
            IN  \A x \in 0..MaxData :
                    Call(chained, x) = IF pv_recipe[k].chain = "FIRST"
                                       THEN Call(next, Call(current, x))
                                       ELSE Call(current, Call(next, x))

\* p adds 1, the continuation multiplies by 2: 3 goes to (3 + 1) * 2 = 8
C5_Witness ==
    /\ pv_pc = "done"
    /\ pv_recipe = <<Chaining("FIRST", LoaderLeaf)>> \o ClassRecipe
    /\ pv_request = [cls |-> "LoaderRequest", loc |-> "Book"]
    /\ pv_result.kind = "ok"
    /\ Call(pv_result.value, 3) = 8

SameOutcome(a, b) == a.kind = b.kind /\ a.value = b.value /\ a.exc = b.exc

\* C6: a BoundingProvider whose checker rejects the request raises
\* CannotProvide without invoking its provider, and the rest of the recipe
\* decides the request; when the checker accepts, the outcome is the outcome of
\* its provider.
C6_BoundingGuards ==
    \A k \in 1..Len(pv_recipe) :
        (Attempted(k) /\ pv_recipe[k].kind = "bounding") =>
            LET out == pv_attempts[k]
                inner == ChildOutcome(k, 1, pv_recipe[k].provider)
                rest == provide_from(pv_recipe, k + 1, pv_request, <<>>)
            IN  IF pv_request.loc \in pv_recipe[k].accepts
                THEN /\ SameOutcome(out, inner)
                     /\ out.log = <<<<k>>>> \o inner.log
                ELSE /\ out.kind = "CannotProvide"
                     /\ out.log = <<<<k>>>>
                     /\ pv_result.kind = rest.kind
                     /\ pv_result.value = rest.value

\* the rule bounded to Person rejects a request at Book, which the rule bounded
\* to Book then answers
C6_Witness ==
    /\ pv_pc = "done"
    /\ pv_recipe = <<Bounding({"Person"}, AnyLeaf), Bounding({"Book"}, LoaderLeaf)>> \o ClassRecipe
    /\ pv_request = [cls |-> "LoaderRequest", loc |-> "Book"]
    /\ pv_attempts[1].kind = "CannotProvide"
    /\ pv_attempts[1].log = <<<<1>>>>
    /\ pv_result.value = Prim("add1")
    /\ pv_result.log = <<<<1>>, <<2>>, <<2, 1>>>>

\* provider i, taken alone, satisfies the request
CouldSatisfy(i) == apply_provider(pv_recipe[i], pv_recipe, <<i>>, pv_request).kind = "ok"

\* i is the first position that could satisfy the request, the positions
\* before it raising CannotProvide
FirstMatch(i) ==
    /\ pv_pc = "done"
    /\ i \in 1..Len(pv_recipe)
    /\ CouldSatisfy(i)
    /\ \A h \in 1..(i - 1) :
          apply_provider(pv_recipe[h], pv_recipe, <<h>>, pv_request).kind = "CannotProvide"

\* the search invoked the provider at position j
Used(j) == \E n \in 1..Len(pv_result.log) : pv_result.log[n][1] = j

CachedOps == {"get_loader", "get_dumper", "load", "dump"}

\* the dict a cached call of that instance looks in
CacheRef(instance, op) ==
    IF op \in {"get_loader", "load"} THEN instance.loader_cache ELSE instance.dumper_cache

\* the last step was a call that looked in a cache
CachedCallMade == rt_ops' # rt_ops /\ rt_last'.op \in CachedOps /\ rt_last'.kind # "ValueError"

\* C8 as stated: on one instance the recipe search for a loader (a dumper)
\* runs at most once per type, so a search only ever runs for a type that no
\* search ran for before.
C8_SearchAtMostOnce ==
    (rt_last.op \in CachedOps /\ rt_last.search # "none") => rt_last.prior = "never"

C8_EntriesPersist ==
    \A d \in 1..Len(rt_heap), tp \in Types :
        rt_heap[d][tp] # Absent => rt_heap'[d][tp] = rt_heap[d][tp]

C8_ResolvedIsAnsweredFromCache ==
    CachedCallMade =>
        LET entry == rt_heap[CacheRef(rt_retorts[rt_last'.self], rt_last'.op)][rt_last'.tp]
        IN  /\ rt_last'.prior = "resolved" => entry # Absent
            /\ entry # Absent =>
                  /\ rt_last'.search = "none"
                  /\ rt_searches' = rt_searches
                  /\ rt_last'.kind = "ok"
                  /\ rt_last'.value = entry

\* C8 (amended): on one instance, once the search for a loader (a dumper) of a
\* type has succeeded it never runs again: every later call for that type is
\* answered by the entry of the cache, and an entry, once written, is never
\* removed or replaced. (A search that fails writes nothing, and the next call
\* for that type searches again.)
C8_NoSearchAfterResolved ==
    [][C8_EntriesPersist /\ C8_ResolvedIsAnsweredFromCache]_vars

C8_Witness ==
    /\ rt_last.op = "get_loader"
    /\ rt_last.prior = "resolved"
    /\ rt_last.hit
    /\ rt_last.value = rt_heap[rt_retorts[rt_last.self].loader_cache][rt_last.tp]

\* what get_loader and get_dumper of the instance would give for the type
Resolution(heap, instance, tp) ==
    LET loader == get_loader(heap, instance, tp).outcome
        dumper == get_dumper(heap, instance, tp).outcome
    IN  <<loader.kind, loader.value, loader.exc, dumper.kind, dumper.value, dumper.exc>>

\* the instance and its two caches are what they were
Untouched(r) ==
    /\ rt_retorts'[r] = rt_retorts[r]
    /\ rt_heap'[rt_retorts[r].loader_cache] = rt_heap[rt_retorts[r].loader_cache]
    /\ rt_heap'[rt_retorts[r].dumper_cache] = rt_heap[rt_retorts[r].dumper_cache]

CacheRefs(retorts) ==
    {retorts[r].loader_cache : r \in 1..Len(retorts)}
        \cup {retorts[r].dumper_cache : r \in 1..Len(retorts)}

C9_CloneStartsEmpty ==
    Len(rt_retorts') > Len(rt_retorts) =>
        LET R2 == rt_retorts'[Len(rt_retorts')]
        IN  /\ rt_heap'[R2.loader_cache] = EmptyDict
            /\ rt_heap'[R2.dumper_cache] = EmptyDict
            /\ R2.loader_cache # R2.dumper_cache
            /\ {R2.loader_cache, R2.dumper_cache} \cap CacheRefs(rt_retorts) = {}
            /\ \A r \in 1..Len(rt_retorts) :
                  /\ Untouched(r)
                  /\ \A tp \in Types :
                        Resolution(rt_heap', rt_retorts'[r], tp)
                            = Resolution(rt_heap, rt_retorts[r], tp)

C9_OthersUntouched ==
    CachedCallMade =>
        /\ rt_retorts' = rt_retorts
        /\ \A r \in 1..Len(rt_retorts) : r # rt_last'.self => Untouched(r)

\* C9: the retort that extend or replace returns starts with empty loader and
\* dumper caches of its own; making it leaves every existing retort, its
\* caches and what it resolves as they were; and a call that looks in the
\* caches of one retort changes neither an entry of another retort's caches
\* nor any retort's recipe or options.
C9_CloneIsolation ==
    [][C9_CloneStartsEmpty /\ C9_OthersUntouched]_vars

C9_Witness ==
    /\ Len(rt_retorts) >= 2
    /\ rt_added[2] = Append(rt_added[1], <<AnyLeaf>>)
    /\ rt_heap[rt_retorts[1].dumper_cache]["Person"] = Absent
    /\ rt_heap[rt_retorts[2].dumper_cache]["Person"] = Prim("mul2")
    /\ rt_heap[rt_retorts[1].loader_cache]["Person"] = Prim("add1")
    /\ rt_heap[rt_retorts[2].loader_cache]["Person"] = Absent

RECURSIVE MostRecentFirst(_)
\* the recipes an instance was given, the last one first
MostRecentFirst(added) ==
    IF added = <<>> THEN <<>> ELSE MostRecentFirst(Tail(added)) \o Head(added)

\* the providers of the recipe extend was just given that do not decline the
\* request where they stand in the new retort's recipe
Accepting(recipe, instance, request) ==
    {i \in 1..Len(recipe) :
        apply_provider(recipe[i], instance.full_recipe, <<i>>, request).kind # "CannotProvide"}

C10_LatestTakesPrecedence(recipe, instance) ==
    \A request \in Requests :
        \A i \in Accepting(recipe, instance, request) :
            (\A j \in Accepting(recipe, instance, request) : i <= j) =>
                SameOutcome(facade_provide(instance, request),
                            apply_provider(recipe[i], instance.full_recipe, <<i>>, request))

\* C10: extend(recipe=r) returns a retort whose extension recipe is r followed
\* by that of the retort it was called on; every retort's extension recipe is
\* the recipes it was given, most recent first, and stands before the class
\* recipe in the recipe that is searched; and the first provider of r that
\* does not decline a request decides it, whatever the earlier recipes hold.
C10_ExtendPrepends ==
    /\ \A r \in 1..Len(rt_retorts) :
          LET inc == rt_retorts[r].inc_instance_recipe
              full == rt_retorts[r].full_recipe
          IN  /\ inc = MostRecentFirst(rt_added[r])
              /\ Len(full) >= Len(inc) + Len(ClassRecipe)
              /\ SubSeq(full, 1, Len(inc)) = inc
              /\ SubSeq(full, Len(full) - Len(ClassRecipe) + 1, Len(full)) = ClassRecipe
    /\ rt_last.op = "extend" =>
          /\ rt_retorts[rt_last.new].inc_instance_recipe
                = rt_last.recipe \o rt_retorts[rt_last.self].inc_instance_recipe
          /\ C10_LatestTakesPrecedence(rt_last.recipe, rt_retorts[rt_last.new])

C10_Witness ==
    /\ Len(rt_retorts) = 3
    /\ Len(rt_added[3]) = 3
    /\ rt_added[3][2] = <<AnyLeaf>>
    /\ rt_added[3][3] = <<Bounding({"Book"}, LoaderLeaf), Chaining("FIRST", LoaderLeaf)>>
    /\ rt_last.op = "get_loader"
    /\ rt_last.self = 3
    /\ rt_last.tp = "Book"
    /\ rt_last.value = Prim("add1")

\* C11: replace changes only the options passed with a value: an option left
\* out or passed as None keeps the value of the retort replace was called on,
\* an option passed with a value takes it, and the extension recipe and the
\* class recipe of the result are those of the original; extend leaves
\* strict_coercion and debug_trail as they were.
C11_ReplaceChangesOnlyPassedOptions ==
    /\ rt_last.op = "replace" =>
          LET R == rt_retorts[rt_last.self]
              R2 == rt_retorts[rt_last.new]
          IN  /\ R2.strict_coercion = IF rt_last.options[1] = "None" THEN R.strict_coercion
                                      ELSE rt_last.options[1] = "True"
              /\ R2.debug_trail = IF rt_last.options[2] = "None" THEN R.debug_trail
                                  ELSE rt_last.options[2]
              /\ R2.inc_instance_recipe = R.inc_instance_recipe
              /\ rt_added[rt_last.new] = rt_added[rt_last.self]
              /\ R2.full_recipe = R.inc_instance_recipe \o get_config_recipe(R2) \o ClassRecipe
    /\ rt_last.op = "extend" =>
          /\ rt_retorts[rt_last.new].strict_coercion = rt_retorts[rt_last.self].strict_coercion
          /\ rt_retorts[rt_last.new].debug_trail = rt_retorts[rt_last.self].debug_trail

C11_Witness ==
    /\ rt_last.op = "replace"
    /\ rt_last.options = <<"None", "FIRST">>
    /\ rt_last.self = 2
    /\ rt_retorts[2].strict_coercion = FALSE
    /\ rt_retorts[3].strict_coercion = FALSE
    /\ rt_retorts[3].debug_trail = "FIRST"
    /\ rt_retorts[3].inc_instance_recipe = <<Bounding({"Book"}, LoaderLeaf)>>

\* the data converters are tried on
ConverterInputs == (-2)..MaxData

\* a converter was returned by a retort whose debug_trail is DebugTrail.FIRST
TrailModeReturn ==
    /\ rt_last.op \in CachedOps
    /\ rt_last.kind = "ok"
    /\ rt_retorts[rt_last.self].debug_trail = "FIRST"

\* the converter the search resolves for the last call
ResolvedConverter ==
    facade_provide(rt_retorts[rt_last.self],
                   [cls |-> IF rt_last.op \in {"get_loader", "load"}
                            THEN "LoaderRequest" ELSE "DumperRequest",
                    loc |-> rt_last.tp]).value

\* C12 as stated: in trail mode the returned converter returns what the
\* resolved converter returns, and on every input on which that raises it
\* raises the same exception with the path note added.
C12_EveryRaiseAnnotated ==
    TrailModeReturn =>
        \A data \in ConverterInputs :
            LET inner == Apply(ResolvedConverter, data)
                outer == Apply(rt_last.value, data)
            IN  /\ inner.kind = "ok" => outer = inner
                /\ inner.kind # "ok" => outer = render_trail_as_note(inner)

\* C12 (amended): in trail mode the returned converter wraps the resolved one;
\* it returns what the resolved converter returns; when that raises an
\* Exception it raises the same exception with the path note added; and an
\* exception that is not an Exception (a KeyboardInterrupt) comes out as it
\* was raised, without the note.
C12_WrapperKeepsOutcome ==
    TrailModeReturn =>
        /\ rt_last.value = TrailRenderingWrapper(ResolvedConverter)
        /\ \A data \in ConverterInputs :
              LET inner == Apply(ResolvedConverter, data)
                  outer == Apply(rt_last.value, data)
              IN  /\ inner.kind = "ok" => outer = inner
                  /\ (inner.kind # "ok" /\ is_exception(inner.kind)) =>
                        outer = render_trail_as_note(inner)
                  /\ (inner.kind # "ok" /\ ~is_exception(inner.kind)) => outer = inner
        /\ rt_last.applied # NotApplied =>
              \E data \in LoadData : rt_last.applied = Apply(rt_last.value, data)

C12_Witness ==
    /\ TrailModeReturn
    /\ rt_last.op = "load"
    /\ rt_last.applied = render_trail_as_note(Threw("LoadError"))

\* the caches of one kind, of every retort, are what they were
CachesKept(kind) ==
    \A r \in 1..Len(rt_retorts) :
        LET cache == IF kind = "loader" THEN rt_retorts[r].loader_cache
                     ELSE rt_retorts[r].dumper_cache
        IN  rt_heap'[cache] = rt_heap[cache]

C20_FailedCallWritesNothing ==
    (rt_ops' # rt_ops /\ rt_last'.op \in CachedOps) =>
        LET cache == CacheRef(rt_retorts[rt_last'.self], rt_last'.op)
        IN  /\ rt_last'.kind # "ok" =>
                  /\ rt_heap' = rt_heap
                  /\ rt_retorts' = rt_retorts
                  /\ rt_last'.tp \in Types => rt_heap'[cache][rt_last'.tp] = Absent
            /\ (rt_last'.prior = "failed" /\ rt_last'.kind # "ValueError") =>
                  /\ rt_heap[cache][rt_last'.tp] = Absent
                  /\ rt_last'.search # "none"
                  /\ ~rt_last'.hit
            /\ rt_last'.op \in {"get_loader", "load"} => CachesKept("dumper")
            /\ rt_last'.op \in {"get_dumper", "dump"} => CachesKept("loader")

\* C20: a get_loader, get_dumper, load or dump call that raises from the
\* search leaves every cache of every retort and every retort as it was, with
\* no entry for the type; a later call for a type whose search failed searches
\* again; and get_loader and load never change a dumper cache, get_dumper and
\* dump never a loader cache.
C20_FailedResolutionLeavesRetort ==
    [][C20_FailedCallWritesNothing]_vars

\* a second get_dumper for a type no provider dumps fails again after a
\* search, on a retort that holds a loader for another type
C20_Witness ==
    /\ rt_last.op = "get_dumper"
    /\ rt_last.prior = "failed"
    /\ rt_last.search = "failed"
    /\ rt_last.kind = "CannotProvide"
    /\ rt_heap[rt_retorts[rt_last.self].dumper_cache] = EmptyDict
    /\ \E tp \in Types :
          /\ tp # rt_last.tp
          /\ rt_heap[rt_retorts[rt_last.self].loader_cache][tp] # Absent

(***************************************************************************)
(* Claims about two threads in get_loader                                  *)
(***************************************************************************)
\* the two converters give the same on every input
SameBehaviour(a, b) ==
    \A data \in ConverterInputs : Apply(a, data) = Apply(b, data)

\* an entry changes only when a thread stores the converter it resolved for
\* that type, and no entry goes away
C13_OnlyOwnTypeWritten ==
    \A tp \in Types :
        /\ rc_cache[tp] # NoObject => rc_cache'[tp] # NoObject
        /\ rc_cache'[tp] # rc_cache[tp] =>
              \E t \in Threads :
                  /\ rc_pc[t] = "store"
                  /\ rc_tp[t] = tp
                  /\ rc_loader[t] # NoObject
                  /\ rc_cache'[tp] = rc_loader[t]

\* both threads have returned from get_loader of one type
BothReturned ==
    /\ \A t \in Threads : rc_pc[t] = "returned"
    /\ rc_tp[1] = rc_tp[2]

C13_OneOfTheTwo ==
    BothReturned =>
        /\ rc_cache[rc_tp[1]] \in {rc_ret[1], rc_ret[2]}
        /\ rc_cache[rc_tp[1]] # NoObject
        /\ \A t \in Threads : rc_ret[t] # NoObject
        /\ SameBehaviour(rc_ret[1].conv, rc_ret[2].conv)

\* C13: however the steps of two get_loader(T) calls on one retort interleave,
\* when both have returned the cache holds for T one of the two converters
\* they returned, the two converters behave the same on every input, and no
\* step loses or changes the entry of another type.
C13_RaceIsHarmless ==
    [][C13_OnlyOwnTypeWritten /\ C13_OneOfTheTwo']_vars

C13_Witness ==
    /\ BothReturned
    /\ rc_ret[1].by = 1
    /\ rc_ret[2].by = 2
    /\ rc_cache[rc_tp[1]] = rc_ret[1]
    /\ \E tp \in Types : tp # rc_tp[1] /\ rc_cache[tp] # NoObject
    /\ rc_retort.debug_trail = "FIRST"

(***************************************************************************)
(* Claims about the continued search                                       *)
(***************************************************************************)
\* the places of recipe positions among the calls of a log, in call order
RECURSIVE TopLevel(_)
TopLevel(log) ==
    IF log = <<>> THEN <<>>
    ELSE IF Len(Head(log)) = 1 THEN <<Head(log)[1]>> \o TopLevel(Tail(log))
    ELSE TopLevel(Tail(log))

\* the calls made when the provider at position i is applied stay behind i:
\* i itself is called once, its own provider before anything else, and what
\* follows are positions after i, the first of them i + 1, none skipped
AdvancesFrom(i, log) ==
    /\ log[1] = <<i>>
    /\ \A n \in 2..Len(log) : log[n] # <<i>>
    /\ \A n \in 1..Len(log) : log[n][1] >= i
    /\ \A n \in 1..Len(log) : log[n][1] = i => \A m \in 1..n : log[m][1] = i
    /\ LET top == TopLevel(log)
       IN  \A n \in 2..Len(top) : top[n] > i /\ top[n] <= top[n - 1] + 1

\* C14: the search a provider at position i continues (a ChainingProvider, an
\* OverlayProvider with a chain mode) calls only providers at positions after
\* i, in recipe order from i + 1 on, and never the provider at i or one before
\* it; so does every continuation inside it.
C14_ContinuationAdvances ==
    pv_pc = "done" =>
        /\ \A i \in 1..Len(pv_recipe) :
              AdvancesFrom(i, apply_provider(pv_recipe[i], pv_recipe, <<i>>, pv_request).log)
        /\ \A i \in 1..Len(pv_attempts) :
              pv_attempts[i] = apply_provider(pv_recipe[i], pv_recipe, <<i>>, pv_request)

C14_Witness ==
    /\ pv_pc = "done"
    /\ pv_recipe = <<Chaining("FIRST", LoaderLeaf), Chaining("LAST", AnyLeaf)>> \o ClassRecipe
    /\ pv_result.kind = "ok"
    /\ pv_result.log = <<<<1>>, <<1, 1>>, <<2>>, <<2, 1>>, <<3>>, <<4>>, <<4, 1>>>>

\* C17: a ChainingProvider returns only when its own provider and the
\* continued search both returned, and then the chain of the two, never its own
\* converter alone; when its own provider raises CannotProvide it raises that
\* and the search is not continued; when the continued search raises
\* CannotProvide it raises CannotProvide.
C17_ChainingNeedsBoth ==
    pv_pc = "done" =>
        \A i \in 1..Len(pv_recipe) :
            pv_recipe[i].kind = "chaining" =>
                LET attempt == apply_provider(pv_recipe[i], pv_recipe, <<i>>, pv_request)
                    own == apply_provider(pv_recipe[i].provider, pv_recipe, <<i, 1>>, pv_request)
                    next == provide_from(pv_recipe, i + 1, pv_request, <<>>)
                IN  /\ attempt.kind = "ok" =>
                          /\ own.kind = "ok"
                          /\ next.kind = "ok"
                          /\ attempt.value.kind = "chain_processor"
                          /\ attempt.value # own.value
                          /\ {attempt.value.first, attempt.value.second} = {own.value, next.value}
                    /\ own.kind = "CannotProvide" =>
                          /\ SameOutcome(attempt, own)
                          /\ \A n \in 1..Len(attempt.log) : attempt.log[n][1] = i
                    /\ (own.kind = "ok" /\ next.kind = "CannotProvide") =>
                          SameOutcome(attempt, next)

C17_Witness ==
    /\ pv_pc = "done"
    /\ pv_recipe = <<Chaining("LAST", AnyLeaf)>> \o ClassRecipe
    /\ pv_request = [cls |-> "DumperRequest", loc |-> "Person"]
    /\ apply_provider(AnyLeaf, pv_recipe, <<1, 1>>, pv_request).kind = "ok"
    /\ pv_attempts[1].kind = "CannotProvide"
    /\ pv_result.kind = "CannotProvide"

\* C18: an OverlayProvider asked for an overlay class it does not hold raises
\* CannotProvide; with chain None it returns its own overlay and calls no later
\* provider; with a chain mode it returns its own overlay when the rest of the
\* recipe raises CannotProvide, and otherwise the merge of the two, in which a
\* field Omitted on one side has the other side's value and a field specified by
\* both has, under the default merge, its own value for Chain.FIRST and the
\* later provider's value for Chain.LAST.
C18_OverlayProviderChain ==
    (pv_pc = "done" /\ pv_request.cls = "OverlayRequest") =>
        \A i \in 1..Len(pv_recipe) :
            pv_recipe[i].kind = "overlay" =>
                LET provider == pv_recipe[i]
                    attempt == apply_provider(provider, pv_recipe, <<i>>, pv_request)
                    next == provide_from(pv_recipe, i + 1, pv_request, <<>>)
                IN  IF pv_request.overlay_cls \notin DOMAIN provider.overlays
                    THEN attempt.kind = "CannotProvide" /\ attempt.log = <<<<i>>>>
                    ELSE LET own == provider.overlays[pv_request.overlay_cls]
                         IN  /\ provider.chain = "None" => attempt = Returned(own, <<<<i>>>>)
                             /\ (provider.chain # "None" /\ next.kind = "CannotProvide") =>
                                   attempt.kind = "ok" /\ attempt.value = own
                             /\ (provider.chain # "None" /\ next.kind = "ok") =>
                                   /\ attempt.kind = "ok"
                                   /\ \A fn \in FieldNames :
                                         /\ is_omitted(own[fn]) =>
                                               attempt.value[fn] = next.value[fn]
                                         /\ is_omitted(next.value[fn]) =>
                                               attempt.value[fn] = own[fn]
                                         /\ (/\ ~is_omitted(own[fn])
                                             /\ ~is_omitted(next.value[fn])
                                             /\ fn \notin custom_fields) =>
                                               attempt.value[fn] =
                                                   IF provider.chain = "FIRST" THEN own[fn]
                                                   ELSE next.value[fn]

C18_Witness ==
    /\ pv_pc = "done"
    /\ custom_fields = {}
    /\ pv_request.cls = "OverlayRequest"
    /\ pv_request.overlay_cls = "Ov"
    /\ pv_recipe = <<OverlayProvider([c \in {"Ov"} |-> [f |-> <<1>>, g |-> Omitted]], "FIRST"),
                     OverlayProvider([c \in {"Ov"} |-> [f |-> <<2>>, g |-> <<2>>]], "None")>>
    /\ pv_result.kind = "ok"
    /\ pv_result.value = [f |-> <<1>>, g |-> <<2>>]
    /\ mergers.loaded

(***************************************************************************)
(* Claims about the request-class probe                                    *)
(***************************************************************************)
\* the children of a combinator with the places they are called at
Children(provider, at) ==
    IF provider.kind = "concat"
    THEN {<<provider.providers[k], at \o <<k>>>> : k \in 1..Len(provider.providers)}
    ELSE {<<provider.provider, at \o <<1>>>>}

\* a False of the probe means CannotProvide on every request of the class
ProbeSound(provider, at) ==
    \A request \in Requests :
        ~maybe_can_process_request_cls(provider, request.cls) =>
            apply_provider(provider, pv_recipe, at, request).kind = "CannotProvide"

Combinators(recipe) ==
    {i \in 1..Len(recipe) : recipe[i].kind \in {"bounding", "concat", "chaining"}}

\* C16: the probe of a BoundingProvider or ChainingProvider answers what the
\* probe of its inner provider answers, and True when that has none; the probe
\* of a ConcatProvider answers False exactly when every child has a probe that
\* answers False, so for no children; and when the probe of every child that
\* has one is sound, a combinator whose probe answers False for a request
\* class raises CannotProvide on every request of that class.
C16_ProbeSoundForChildren ==
    pv_pc = "done" =>
        \A i \in Combinators(pv_recipe) :
            LET provider == pv_recipe[i]
            IN  /\ \A request_cls \in RequestClasses :
                      LET answer == maybe_can_process_request_cls(provider, request_cls)
                      IN  IF provider.kind = "concat"
                          THEN ~answer <=>
                                  \A child \in Children(provider, <<i>>) :
                                      /\ is_request_class_determined(child[1])
                                      /\ ~maybe_can_process_request_cls(child[1], request_cls)
                          ELSE answer =
                                  IF is_request_class_determined(provider.provider)
                                  THEN maybe_can_process_request_cls(provider.provider, request_cls)
                                  ELSE TRUE
                /\ (\A child \in Children(provider, <<i>>) :
                       is_request_class_determined(child[1]) => ProbeSound(child[1], child[2]))
                      => ProbeSound(provider, <<i>>)
                /\ pv_probes[i] = maybe_can_process_request_cls(provider, pv_request.cls)

C16_Witness ==
    /\ pv_pc = "done"
    /\ pv_recipe[1] = Concat(<<LoaderLeaf, LoaderLeaf>>)
    /\ pv_request.cls = "DumperRequest"
    /\ ~pv_probes[1]
    /\ ProbeSound(LoaderLeaf, <<1, 1>>)
    /\ pv_attempts[1].kind = "CannotProvide"
    /\ Len(pv_attempts[1].exc.children) = 2

\* the layers provide_schema has asked the mediator for so far
AskedLayers == {ps_asked[n] : n \in 1..Len(ps_asked)}

ConcatChildOutcome(p, k, request) ==
    apply_provider(pv_recipe[p].providers[k], pv_recipe, <<p, k>>, request)

\* the children of the ConcatProvider at p that the loop reaches on request:
\* every child before the first one that does not raise CannotProvide, and it
ReachedChildren(p, request) ==
    {k \in 1..Len(pv_recipe[p].providers) :
        \A j \in 1..(k - 1) : ConcatChildOutcome(p, j, request).kind = "CannotProvide"}

CalledChildren(p, log) == {log[n][2] : n \in {m \in 1..Len(log) : Len(log[m]) >= 2 /\ log[m][1] = p}}

ConcatStopsAtOtherError(p, request) ==
    LET outcome == apply_provider(pv_recipe[p], pv_recipe, <<p>>, request)
    IN  /\ CalledChildren(p, outcome.log) = ReachedChildren(p, request)
        /\ \A k \in ReachedChildren(p, request) :
              ConcatChildOutcome(p, k, request).kind \notin {"ok", "CannotProvide"} =>
                  /\ outcome.kind = "OtherError"
                  /\ outcome.exc = ConcatChildOutcome(p, k, request).exc
                  /\ \A j \in CalledChildren(p, outcome.log) : j <= k

\* C15: a child of a ConcatProvider that raises CannotProvide makes the loop go
\* on to the next child, and a child that raises another error ends it: the
\* ConcatProvider raises that child's exception itself, not an aggregate, and
\* no later child is called.  In provide_schema an ancestor request answered
\* with CannotProvide is skipped and the walk goes on, and one answered with
\* another error ends the walk: provide_schema raises it and no later
\* ancestor is asked.
C15_OnlyCannotProvideGoesOn ==
    /\ \A i \in AskedLayers :
          \A p \in {q \in 1..Len(pv_recipe) : pv_recipe[q].kind = "concat"} :
              ConcatStopsAtOtherError(p, LayerRequest(i))
    /\ \A n \in 1..Len(ps_asked) : ps_asked[n] = n
    /\ \A n \in 2..Len(ps_asked) :
          /\ ps_answers[ps_asked[n]] = SearchAnswer(pv_recipe, LayerRequest(ps_asked[n]))
          /\ ps_answers[ps_asked[n]].kind = "OtherError" =>
                /\ n = Len(ps_asked)
                /\ ps_pc = "raised"
                /\ ps_result.kind = "OtherError"
          /\ ps_answers[ps_asked[n]].kind = "CannotProvide" /\ n = Len(ps_asked) =>
                /\ ps_idx = ps_asked[n] + 1
                /\ ps_result.kind # "CannotProvide"

\* the second ancestor of three layers breaks inside a ConcatProvider whose
\* first child raised CannotProvide and whose third child could have answered
C15_Witness ==
    /\ ps_pc = "raised"
    /\ ps_asked = <<1, 2>>
    /\ Len(ps_answers) = 3
    /\ ps_result.kind = "OtherError"
    /\ \E p \in 1..Len(pv_recipe) :
          /\ pv_recipe[p].kind = "concat"
          /\ ConcatChildOutcome(p, 1, LayerRequest(2)).kind = "CannotProvide"
          /\ ConcatChildOutcome(p, 2, LayerRequest(2)).kind = "OtherError"
          /\ ConcatChildOutcome(p, 3, LayerRequest(2)).kind = "ok"
          /\ provide_from(pv_recipe, 1, LayerRequest(2), <<>>).exc
                = ConcatChildOutcome(p, 2, LayerRequest(2)).exc

\* the overlays of the ancestors asked up to layer n, merged among themselves
\* before the overlay of the type itself is merged in
RECURSIVE ParentsMerged(_)
ParentsMerged(n) ==
    IF n < 2 THEN AllOmitted
    ELSE merge(ps_answers[n].ov, ParentsMerged(n - 1), MergersNow)

Associative(a, b, c) ==
    merge(merge(a, b, MergersNow), c, MergersNow) = merge(a, merge(b, c, MergersNow), MergersNow)

\* C19: with no custom merger, merge returns an overlay with every field;
\* (a.merge(b)).merge(c) equals a.merge(b.merge(c)); merging with the
\* all-Omitted overlay on either side gives the other operand; and so a layer
\* merged by the ancestor walk onto layers merged by a chained OverlayProvider
\* gives what the chained OverlayProvider gives on layers merged by the walk,
\* and the overlay provide_schema has stacked equals the ancestors' overlays
\* merged first with the type's own overlay merged into them.
C19_MergeIsAssociativeWithIdentity ==
    custom_fields = {} =>
        /\ \A a \in {stacked_overlay} \cup {ps_answers[n].ov : n \in 1..Len(ps_answers)} :
              /\ merge(a, AllOmitted, MergersNow) = a
              /\ merge(AllOmitted, a, MergersNow) = a
              /\ \A b, c \in Overlays :
                    /\ DOMAIN merge(a, b, MergersNow) = FieldNames
                    /\ merge(a, b, MergersNow) \in Overlays
                    /\ Associative(a, b, c)
                    /\ Associative(b, a, c)
                    /\ Associative(b, c, a)
                    /\ walk_merge(c, overlay_chain("FIRST", a, b), MergersNow)
                          = overlay_chain("FIRST", a, walk_merge(c, b, MergersNow))
                    /\ walk_merge(c, overlay_chain("LAST", a, b), MergersNow)
                          = overlay_chain("LAST", walk_merge(c, a, MergersNow), b)
        /\ ps_pc = "idle" => \A a, b, c \in Overlays : Associative(a, b, c)
        /\ Len(ps_asked) >= 1 /\ ps_answers[1].kind = "overlay" =>
              stacked_overlay = merge(ParentsMerged(Len(ps_asked)), ps_answers[1].ov, MergersNow)

\* the type's overlay came out of a chained OverlayProvider, two ancestors
\* answered with overlays that the walk merged in, and values were overridden
C19_Witness ==
    /\ custom_fields = {}
    /\ ps_pc = "returned"
    /\ ps_asked = <<1, 2, 3>>
    /\ ps_answers[1].loads
    /\ \A n \in 1..3 : ps_answers[n].kind = "overlay"
    /\ ps_answers[2].ov # ps_answers[1].ov
    /\ stacked_overlay # ps_answers[1].ov
    /\ stacked_overlay # ParentsMerged(3)

====
